---- MODULE Spec2Model ----
(***************************************************************************)
(* Model of src/main.py, the Python launcher of the Special Education Data *)
(* Collection App.  main() runs, in order,                                 *)
(*     node --version ; npm --version ; [npm install] ; npm run dev        *)
(* through subprocess.run and maps what happens to an exit code.           *)
(*                                                                         *)
(* Scope of the model.  The environment decides what each subprocess.run   *)
(* call does: the executable cannot be launched (OSError out of Popen),    *)
(* the child exits with a code in 0..255, the child is killed by signal s  *)
(* (POSIX: returncode = -s), or KeyboardInterrupt is raised while main()   *)
(* is blocked waiting for the child.  The print calls are informational    *)
(* and are not modelled.  The node_modules directory is read once by       *)
(* os.path.exists and is never written by the launcher.                    *)
(***************************************************************************)
EXTENDS Integers, Sequences, FiniteSets

\* ---------------------------------------------------------------- bounds
\* Highest signal number that may kill a child (returncode = -s).
MaxSig == 3
\* Cap on the number of subprocess.run calls of one run.  main() makes at
\* most four; the cap only keeps the state space finite.
MaxCalls == 6

\* ------------------------------------------------------------ the commands
NODE_VERSION == "node --version"
NPM_VERSION  == "npm --version"
NPM_INSTALL  == "npm install"
NPM_RUN_DEV  == "npm run dev"

Cmds == {NODE_VERSION, NPM_VERSION, NPM_INSTALL, NPM_RUN_DEV}

\* Exit codes a child that exits normally can report.
ExitCodes == 0..255

\* returncode values of a child that was terminated by a signal.
SignalCodes == {0 - s : s \in 1..MaxSig}

\* What the wait on a launched child can end with.
WaitOutcomes ==
    [kind : {"exit"}, rc : ExitCodes]
        \cup [kind : {"signal"}, rc : SignalCodes]
        \cup {[kind |-> "interrupt", rc |-> 0]}

NoOutcome == [kind |-> "none", rc |-> 0]
LaunchFailure == [kind |-> "oserror", rc |-> 0]

VARIABLES
    pc,            \* position of main(): a command, "check_modules",
                   \* "returned", "escaped" or "exited"
    node_modules,  \* does the directory node_modules exist
    children,      \* the child processes currently alive
    log,           \* the commands handed to subprocess.run, in order
    outcome,       \* per command, what its subprocess.run call ended with
    result,        \* <<result.returncode>> of line 35, <<>> before
    ret,           \* <<value returned by main()>>, <<>> before the return
    exitStatus     \* <<exit status of the launcher process>>, <<>> before

vars == <<pc, node_modules, children, log, outcome, result, ret, exitStatus>>

\* ------------------------------------------------- subprocess.run arguments
\* The check= argument of each call (lines 18, 22, 28: True; line 35: False).
CheckNotNode(c) == c \notin {NPM_RUN_DEV, NODE_VERSION}
CheckNotNpm(c) == c \notin {NPM_RUN_DEV, NPM_VERSION}
CheckNotInstall(c) == c \notin {NPM_RUN_DEV, NPM_INSTALL}
Check(c) == c # NPM_RUN_DEV

\* The exception subprocess.run raises for an outcome, "none" if it returns.
Raises(c, o) ==
    IF o.kind = "oserror" THEN "OSError"
    ELSE IF o.kind = "interrupt" THEN "KeyboardInterrupt"
    ELSE IF Check(c) /\ o.rc # 0 THEN "CalledProcessError"
    ELSE "none"

\* ------------------------------------------------------ the except clauses
\* Classes an exception is an instance of.
Bases(exc) ==
    CASE exc = "CalledProcessError" ->
            {"CalledProcessError", "SubprocessError", "Exception", "BaseException"}
      [] exc = "OSError" -> {"OSError", "Exception", "BaseException"}
      [] exc = "KeyboardInterrupt" -> {"KeyboardInterrupt", "BaseException"}
      [] OTHER -> {}

\* The except clauses of main() in source order, with the value each returns.
InterruptReturnsOne ==
    << [cls |-> "CalledProcessError", ret |-> 1],
       [cls |-> "KeyboardInterrupt", ret |-> 1],
       [cls |-> "Exception", ret |-> 1] >>
NoGenericClause ==
    << [cls |-> "CalledProcessError", ret |-> 1],
       [cls |-> "KeyboardInterrupt", ret |-> 0] >>
ExceptClauses ==
    << [cls |-> "CalledProcessError", ret |-> 1],
       [cls |-> "KeyboardInterrupt", ret |-> 0],
       [cls |-> "Exception", ret |-> 1] >>

\* Index of the first except clause that matches exc, 0 if none does.
Handler(exc) ==
    LET matching == {i \in 1..Len(ExceptClauses) : ExceptClauses[i].cls \in Bases(exc)}
    IN  IF matching = {} THEN 0
        ELSE CHOOSE i \in matching : \A j \in matching : i <= j

\* ------------------------------------------------------------ control flow
\* Where main() continues after subprocess.run(c) returned normally.
RetryInstall(c) ==
    CASE c = NODE_VERSION -> NPM_VERSION
      [] c = NPM_VERSION -> "check_modules"
      [] c = NPM_INSTALL -> "check_modules"
      [] c = NPM_RUN_DEV -> "returned"
NextStep(c) ==
    CASE c = NODE_VERSION -> NPM_VERSION
      [] c = NPM_VERSION -> "check_modules"
      [] c = NPM_INSTALL -> NPM_RUN_DEV
      [] c = NPM_RUN_DEV -> "returned"

\* The condition of line 26: not os.path.exists("node_modules").
AlwaysInstall(exists) == TRUE
NeverInstall(exists) == FALSE
NeedInstall(exists) == ~exists

\* The value of line 36 for a returncode.
NonZeroIsOne(rc) == IF rc = 0 THEN 0 ELSE 1
ReturnValue(rc) == rc

\* Exit status the operating system records for sys.exit(n).
ExitStatusOf(n) == n % 256

\* An exception exc leaves the try block: run the matching except clause.
Except(exc) ==
    LET h == Handler(exc)
    IN  IF h = 0
        THEN pc' = "escaped" /\ UNCHANGED ret
        ELSE pc' = "returned" /\ ret' = <<ExceptClauses[h].ret>>

\* ------------------------------------------------------------------- Init
Init ==
    /\ pc = NODE_VERSION
    /\ node_modules \in BOOLEAN
    /\ children = {}
    /\ log = <<>>
    /\ outcome = [c \in Cmds |-> NoOutcome]
    /\ result = <<>>
    /\ ret = <<>>
    /\ exitStatus = <<>>

\* ---------------------------------------------------------------- actions
\* main() reaches subprocess.run(c): the child is launched, or Popen raises
\* OSError and the exception is handled.
Call(c) ==
    /\ pc = c
    /\ c \notin children
    /\ Len(log) < MaxCalls
    /\ log' = Append(log, c)
    /\ \/ /\ children' = children \cup {c}
          /\ UNCHANGED <<pc, outcome, ret>>
       \/ /\ outcome' = [outcome EXCEPT ![c] = LaunchFailure]
          /\ Except(Raises(c, LaunchFailure))
          /\ UNCHANGED children
    /\ UNCHANGED <<node_modules, result, exitStatus>>

\* subprocess.run(c) stops waiting: the child has exited or was killed, or
\* KeyboardInterrupt arrived (run() then kills the child and re-raises).
Wait(c) ==
    /\ pc = c
    /\ c \in children
    /\ \E o \in WaitOutcomes :
        LET exc == Raises(c, o)
        IN  /\ outcome' = [outcome EXCEPT ![c] = o]
            /\ children' = children \ {c}
            /\ IF exc # "none"
               THEN Except(exc) /\ UNCHANGED result
               ELSE IF c = NPM_RUN_DEV
                    THEN /\ result' = <<o.rc>>
                         /\ ret' = <<ReturnValue(o.rc)>>
                         /\ pc' = NextStep(c)
                    ELSE /\ pc' = NextStep(c)
                         /\ UNCHANGED <<result, ret>>
    /\ UNCHANGED <<node_modules, log, exitStatus>>

\* Line 26: install only if node_modules does not exist.
CheckNodeModules ==
    /\ pc = "check_modules"
    /\ pc' = IF NeedInstall(node_modules) THEN NPM_INSTALL ELSE NPM_RUN_DEV
    /\ UNCHANGED <<node_modules, children, log, outcome, result, ret, exitStatus>>

\* Line 50: sys.exit(main()).
SysExit ==
    /\ pc = "returned"
    /\ pc' = "exited"
    /\ exitStatus' = <<ExitStatusOf(ret[1])>>
    /\ UNCHANGED <<node_modules, children, log, outcome, result, ret>>

NodeProbeCall == Call(NODE_VERSION)
NodeProbeWait == Wait(NODE_VERSION)
NpmProbeCall == Call(NPM_VERSION)
NpmProbeWait == Wait(NPM_VERSION)
InstallCall == Call(NPM_INSTALL)
InstallWait == Wait(NPM_INSTALL)
StartCall == Call(NPM_RUN_DEV)
StartWait == Wait(NPM_RUN_DEV)

Next ==
    \/ NodeProbeCall
    \/ NodeProbeWait
    \/ NpmProbeCall
    \/ NpmProbeWait
    \/ CheckNodeModules
    \/ InstallCall
    \/ InstallWait
    \/ StartCall
    \/ StartWait
    \/ SysExit

Spec == Init /\ [][Next]_vars

\* main() is synchronous: it takes its next step whenever it can, and the
\* fairness on the Wait steps is the premise that every child exits.
FairSpec == Spec /\ WF_vars(Next)

\* ------------------------------------------------------- history predicates
Returned == ret # <<>>

\* The command's subprocess.run call ended with exit code 0.
Succeeded(c) == outcome[c] = [kind |-> "exit", rc |-> 0]

\* The child ran and ended with a non-zero returncode.
NonZeroExit(c) ==
    \/ outcome[c].kind = "signal"
    \/ outcome[c].kind = "exit" /\ outcome[c].rc # 0

\* The command failed by a non-zero exit or by failing to launch.
Failed(c) == NonZeroExit(c) \/ outcome[c].kind = "oserror"

Invoked(c) == \E i \in DOMAIN log : log[i] = c

Invocations(c) == Cardinality({i \in DOMAIN log : log[i] = c})

LastInvoked == IF log = <<>> THEN "" ELSE log[Len(log)]

Position(c) ==
    CASE c = NODE_VERSION -> 1
      [] c = NPM_VERSION -> 2
      [] c = NPM_INSTALL -> 3
      [] c = NPM_RUN_DEV -> 4

\* ------------------------------------------------------------------ claims

\* C1: when both probes succeed, the install step (if it ran) succeeds and
\* npm run dev exits with code N in 0..255, main() returns exactly N.
C1_ForwardsExitCode ==
    ( /\ Succeeded(NODE_VERSION)
      /\ Succeeded(NPM_VERSION)
      /\ outcome[NPM_INSTALL] = NoOutcome \/ Succeeded(NPM_INSTALL)
      /\ outcome[NPM_RUN_DEV].kind = "exit" )
    => ret = <<outcome[NPM_RUN_DEV].rc>>

C1_Witness ==
    /\ Succeeded(NODE_VERSION) /\ Succeeded(NPM_VERSION) /\ Succeeded(NPM_INSTALL)
    /\ outcome[NPM_RUN_DEV] = [kind |-> "exit", rc |-> 255]
    /\ ret = <<255>>

\* C2: when node --version fails (non-zero exit or launch failure), main()
\* returns 1 and no other command is invoked.
C2_NodeProbeFailure ==
    Failed(NODE_VERSION) => ret = <<1>> /\ log = <<NODE_VERSION>>

C2_Witness ==
    /\ outcome[NODE_VERSION] = [kind |-> "exit", rc |-> 1]
    /\ ret = <<1>>
    /\ pc = "exited"

\* C3: when node --version succeeds and npm --version fails, main() returns
\* 1 and neither npm install nor npm run dev is invoked.
C3_NpmProbeFailure ==
    (Succeeded(NODE_VERSION) /\ Failed(NPM_VERSION))
    => /\ ret = <<1>>
       /\ ~Invoked(NPM_INSTALL)
       /\ ~Invoked(NPM_RUN_DEV)

C3_Witness ==
    /\ Succeeded(NODE_VERSION)
    /\ outcome[NPM_VERSION] = LaunchFailure
    /\ ret = <<1>>
    /\ pc = "exited"

\* C4: when both probes succeed, node_modules is absent and npm install
\* exits non-zero, main() returns 1 and npm run dev is never invoked.
C4_InstallFailure ==
    ( /\ Succeeded(NODE_VERSION)
      /\ Succeeded(NPM_VERSION)
      /\ ~node_modules
      /\ NonZeroExit(NPM_INSTALL) )
    => ret = <<1>> /\ ~Invoked(NPM_RUN_DEV)

C4_Witness ==
    /\ ~node_modules
    /\ outcome[NPM_INSTALL] = [kind |-> "exit", rc |-> 2]
    /\ ret = <<1>>
    /\ pc = "exited"

\* C5: when both probes succeed and node_modules exists, npm install is
\* never invoked and the command invoked after the npm probe is npm run dev.
C5_NoInstallWhenPresent ==
    (Succeeded(NODE_VERSION) /\ Succeeded(NPM_VERSION) /\ node_modules)
    => /\ ~Invoked(NPM_INSTALL)
       /\ log \in {<<NODE_VERSION, NPM_VERSION>>,
                   <<NODE_VERSION, NPM_VERSION, NPM_RUN_DEV>>}
       /\ pc \in {"returned", "exited"} => LastInvoked = NPM_RUN_DEV

C5_Witness ==
    /\ node_modules
    /\ log = <<NODE_VERSION, NPM_VERSION, NPM_RUN_DEV>>
    /\ pc = "exited"

\* C6: when both probes succeed and node_modules is absent, npm install is
\* invoked exactly once, and it has completed before npm run dev is invoked.
C6_InstallOnceBeforeStart ==
    (Succeeded(NODE_VERSION) /\ Succeeded(NPM_VERSION) /\ ~node_modules)
    => /\ Invocations(NPM_INSTALL) <= 1
       /\ pc \notin {"check_modules", NPM_INSTALL} => Invocations(NPM_INSTALL) = 1
       /\ Invoked(NPM_RUN_DEV) =>
            /\ outcome[NPM_INSTALL] # NoOutcome
            /\ NPM_INSTALL \notin children
            /\ \E i, j \in DOMAIN log :
                 i < j /\ log[i] = NPM_INSTALL /\ log[j] = NPM_RUN_DEV

C6_Witness ==
    /\ ~node_modules
    /\ log = <<NODE_VERSION, NPM_VERSION, NPM_INSTALL, NPM_RUN_DEV>>
    /\ pc = "exited"

\* C7: a KeyboardInterrupt during any of the four commands makes main()
\* return 0, also during npm run dev, and nothing is invoked afterwards.
C7_InterruptReturnsZero ==
    \A c \in Cmds :
        outcome[c].kind = "interrupt"
        => /\ ret = <<0>>
           /\ LastInvoked = c
           /\ children = {}
           /\ pc \in {"returned", "exited"}

C7_Witness ==
    /\ outcome[NPM_RUN_DEV].kind = "interrupt"
    /\ ret = <<0>>
    /\ pc = "exited"

\* C8: the value main() returns is an integer in 0..255 in every run, also
\* when the npm run dev child was terminated by a signal.
C8_ReturnInByteRange ==
    Returned => ret[1] \in 0..255

\* C9: a failure that is neither a checked non-zero exit nor an interrupt
\* (an executable that cannot be launched, at any step) is caught: main()
\* returns 1, no exception escapes and no later command is invoked.
C9_UnexpectedFailureReturnsOne ==
    /\ pc # "escaped"
    /\ \A c \in Cmds :
         outcome[c] = LaunchFailure
         => /\ ret = <<1>>
            /\ LastInvoked = c
            /\ pc \in {"returned", "exited"}

C9_Witness ==
    /\ outcome[NPM_RUN_DEV] = LaunchFailure
    /\ ret = <<1>>
    /\ pc = "exited"

\* The commands are invoked in source order, each at most once.
LogLinear ==
    \A i, j \in DOMAIN log : i < j => Position(log[i]) < Position(log[j])

\* A command starts only after every earlier one has ended.
OneAtATime ==
    /\ Cardinality(children) <= 1
    /\ children \subseteq {LastInvoked}
    /\ \A i \in DOMAIN log : i < Len(log) => outcome[log[i]] # NoOutcome

\* Nothing follows a command that ended in an exception, nor npm run dev.
FailureIsTerminal ==
    \A c \in Cmds :
        (outcome[c] # NoOutcome /\ (c = NPM_RUN_DEV \/ ~Succeeded(c)))
        => LastInvoked = c /\ pc \in {"returned", "exited"}

\* C10: the four commands are invoked at most once each and in order, each
\* after the previous one has exited, nothing is retried, nothing follows
\* npm run dev, and the run terminates when every invoked child exits.
C10_LinearAndTerminates ==
    /\ [](LogLinear /\ OneAtATime /\ FailureIsTerminal)
    /\ <>(pc = "exited")

C10_Witness ==
    /\ log = <<NODE_VERSION, NPM_VERSION, NPM_INSTALL, NPM_RUN_DEV>>
    /\ outcome[NPM_RUN_DEV].kind = "signal"
    /\ pc = "exited"

====
